---- MODULE Spec2Model ----
(***************************************************************************)
(* A model of nvtxpy (src/nvtxpy/nvtx.py): the library locator, the        *)
(* module-level binding of the native NVTX entry points with its no-op     *)
(* fallback, the event-attribute record and its accessors, the facade      *)
(* (profile_mark, profile_range_push, profile_range_pop), the scoped       *)
(* range profile_range with its statistics dictionary, and getstats.       *)
(*                                                                         *)
(* Python integers are unbounded and the record fields are 16, 32 and 64   *)
(* bits wide, so integers are kept as sign and magnitude in base 2^16      *)
(* (little-endian limbs) and a ctypes field as its raw limbs.              *)
(***************************************************************************)
EXTENDS Integers, Sequences, FiniteSets, TLC

VARIABLES
    \* ---- Event Record Codec ----
    args,       \* the arguments of the latest _create_event call
    ea,         \* what that call gave: the record, or the exception raised
    decoded,    \* the record's properties as read back
    \* ---- Locator, Binder, Facade ----
    env,        \* sys.platform, NVTXPY_CUDA_TOOLKIT, what the loader finds
    path,       \* the result of _get_cuda_nvtx_path()
    binding,    \* "pending" | "bound" | "unavailable"
    last,       \* the latest facade call and the native calls it made
    \* ---- profile_range, _stats, getstats ----
    now,        \* time()
    frames,     \* per thread, the stack of open profile_range generators
    pc,         \* per thread, the position in the innermost generator
    stats,      \* the dict _stats: name -> reference of its [count, total]
    heap,       \* the list objects: reference -> <<count, total>>
    snap,       \* the dict a getstats() caller holds: name -> reference
    pushes,     \* calls of profile_range_push made by profile_range
    pops,       \* calls of profile_range_pop made by profile_range
    expect,     \* per name, <<n, d1+...+dn>> over the completed blocks
    exits       \* per name, the blocks that have exited, either way

codecVars == <<args, ea, decoded>>
otherVars == <<args, ea, decoded, env, path>>
bindVars  == <<env, path, binding, last>>
rangeVars == <<now, frames, pc, stats, heap, snap, pushes, pops, expect, exits>>
vars      == <<args, ea, decoded, env, path, binding, last,
               now, frames, pc, stats, heap, snap, pushes, pops, expect, exits>>

(***************************************************************************)
(* Python values.                                                          *)
(***************************************************************************)
None == [ty |-> "None"]

Base == 2^16

\* An int: sign and magnitude, least significant limb first, no leading zero.
PyInt(neg, mag) == [ty |-> "int", neg |-> neg, mag |-> mag]
\* A float: the 64 bits of its IEEE double, as four limbs.
PyFloat(bits) == [ty |-> "float", bits |-> bits]
\* A byte string.
PyBytes(b) == [ty |-> "bytes", b |-> b]
\* A text string (not a number, not bytes).
PyStr(s) == [ty |-> "str", s |-> s]

RECURSIVE Strip(_)
Strip(l) == IF l = <<>> THEN <<>>
            ELSE IF l[Len(l)] = 0 THEN Strip(SubSeq(l, 1, Len(l) - 1))
            ELSE l

\* The k low limbs of a magnitude.
Pad(mag, k) == [i \in 1..k |-> IF i <= Len(mag) THEN mag[i] ELSE 0]

\* The two's complement of k limbs: 2^(16k) - l, modulo 2^(16k).
NegLimbs(l) ==
    LET k == Len(l)
        c[i \in 0..k] == IF i = 0 THEN 1
                         ELSE ((Base - 1 - l[i]) + c[i - 1]) \div Base
    IN  [i \in 1..k |-> ((Base - 1 - l[i]) + c[i - 1]) % Base]

(***************************************************************************)
(* ctypes fields: a field of k limbs keeps the value modulo 2^(16k); the   *)
(* integer setters check the type of the value, never its range.           *)
(***************************************************************************)
Raised(e) == [ty |-> "raise", exc |-> e]
IsRaised(v) == v.ty = "raise"

\* The raw content of a field.
Bits(l) == [ty |-> "bits", l |-> l]

\* c_uint32 / c_int64 / c_uint64 __set__: the low k limbs, two's complement.
c_int_set(v, k) ==
    IF v.ty # "int" THEN Raised("TypeError")
    ELSE IF v.neg THEN Bits(NegLimbs(Pad(v.mag, k))) ELSE Bits(Pad(v.mag, k))

\* c_uint32 / c_uint64 __get__
c_uint_get(bits) == PyInt(FALSE, Strip(bits))

\* The 64 bits read through the unsigned member.
c_int_get_unsigned(bits) == PyInt(FALSE, Strip(bits))

\* c_int64 __get__: the top bit is the sign.
c_int_get(bits) ==
    IF bits[Len(bits)] >= Base \div 2
    THEN PyInt(TRUE, Strip(NegLimbs(bits)))
    ELSE PyInt(FALSE, Strip(bits))

\* c_double __set__ / __get__: a Python float is an IEEE double already.
c_double_set(v) == IF v.ty = "float" THEN Bits(v.bits) ELSE Raised("TypeError")
c_double_get(bits) == PyFloat(bits)

\* c_char_p __set__: the address of the bytes object's buffer, which ends
\* with a NUL byte.
NULL == [ty |-> "NULL"]
c_char_p_set(v) ==
    IF v.ty = "bytes" THEN [ty |-> "char*", buf |-> v.b \o <<0>>]
    ELSE IF v.ty = "None" THEN NULL
    ELSE Raised("TypeError")

\* c_char_p __get__: the bytes before the first NUL.
RECURSIVE CString(_)
CString(buf) == IF buf = <<>> \/ Head(buf) = 0 THEN <<>>
                ELSE <<Head(buf)>> \o CString(Tail(buf))

c_char_p_get(ptr) == IF ptr = NULL THEN None ELSE PyBytes(CString(ptr.buf))

\* c_wchar_p __get__ of the same union member: the buffer read as wide text.
c_wchar_p_get(ptr) == IF ptr = NULL THEN None ELSE [ty |-> "unicode", of |-> ptr.buf]

\* hex(): "0x" and the digits, most significant first, no leading zero.
HexDigits == <<"0", "1", "2", "3", "4", "5", "6", "7",
               "8", "9", "a", "b", "c", "d", "e", "f">>

LimbHex(v) == << HexDigits[(v \div 4096) + 1], HexDigits[((v \div 256) % 16) + 1],
                 HexDigits[((v \div 16) % 16) + 1], HexDigits[(v % 16) + 1] >>

RECURSIVE MagHex(_)
MagHex(mag) == IF mag = <<>> THEN <<>>
               ELSE LimbHex(mag[Len(mag)]) \o MagHex(SubSeq(mag, 1, Len(mag) - 1))

RECURSIVE StripZeros(_)
StripZeros(d) == IF d = <<>> THEN <<"0">>
                 ELSE IF Head(d) = "0" /\ Len(d) > 1 THEN StripZeros(Tail(d))
                 ELSE d

hex(n) == PyStr((IF n.neg THEN <<"-">> ELSE <<>>) \o <<"0", "x">> \o StripZeros(MagHex(n.mag)))

(***************************************************************************)
(* The event record.                                                       *)
(***************************************************************************)
_NVTX_VERSION == 1

_NVTX_COLOR_UNKNOWN == 0
_NVTX_COLOR_ARGB == 1

_NVTX_PAYLOAD_UNKNOWN == 0
_NVTX_PAYLOAD_TYPE_UNSIGNED_INT64 == 1
_NVTX_PAYLOAD_TYPE_INT64 == 2
_NVTX_PAYLOAD_TYPE_DOUBLE == 3

_NVTX_MESSAGE_UNKNOWN == 0
_NVTX_MESSAGE_TYPE_ASCII == 1
_NVTX_MESSAGE_TYPE_UNICODE == 2

\* The fields in order, each with its size in bytes (its alignment too); the
\* unions _Payload and _Message are as large as their largest member.
PointerSize == 8

_fields_ == << <<"version", 2>>, <<"size", 2>>, <<"category", 4>>,
              <<"_color_type", 4>>, <<"_color", 4>>, <<"_payload_type", 4>>,
              <<"_reserved0", 4>>, <<"_payload", 8>>, <<"_message_type", 4>>,
              <<"_message", PointerSize>> >>

RoundUp(n, a) == ((n + a - 1) \div a) * a

\* ctypes.sizeof: every field at the next multiple of its alignment, the whole
\* rounded up to the largest alignment.
RECURSIVE EndOffset(_)
EndOffset(fs) == IF fs = <<>> THEN 0
                 ELSE RoundUp(EndOffset(SubSeq(fs, 1, Len(fs) - 1)), fs[Len(fs)][2])
                      + fs[Len(fs)][2]

RECURSIVE MaxAlign(_)
MaxAlign(fs) == IF fs = <<>> THEN 1
                ELSE LET r == MaxAlign(Tail(fs))
                     IN  IF Head(fs)[2] > r THEN Head(fs)[2] ELSE r

sizeof(fs) == RoundUp(EndOffset(fs), MaxAlign(fs))

\* ctypes.memset(byref(self), 0, sizeof(self))
Zeroed == [ty |-> "EventAttributes_v1",
           version |-> 0, size |-> 0, category |-> <<0, 0>>,
           _color_type |-> 0, _color |-> <<0, 0>>,
           _payload_type |-> 0, _reserved0 |-> 0, _payload |-> <<0, 0, 0, 0>>,
           _message_type |-> 0, _message |-> NULL]

\* _EventAttributes_v1.__init__
_EventAttributes_v1 ==
    [Zeroed EXCEPT !.version = _NVTX_VERSION, !.size = sizeof(_fields_)]

\* The property payload: the union read through the member the kind names.
payload(e) ==
    IF e._payload_type = _NVTX_PAYLOAD_UNKNOWN THEN None
    ELSE IF e._payload_type = _NVTX_PAYLOAD_TYPE_UNSIGNED_INT64 THEN c_uint_get(e._payload)
    ELSE IF e._payload_type = _NVTX_PAYLOAD_TYPE_INT64 THEN c_int_get(e._payload)
    ELSE IF e._payload_type = _NVTX_PAYLOAD_TYPE_DOUBLE THEN c_double_get(e._payload)
    ELSE Raised("AttributeError")

\* The property color.
color(e) ==
    IF e._color_type = _NVTX_COLOR_UNKNOWN THEN None
    ELSE IF e._color_type = _NVTX_COLOR_ARGB THEN hex(c_uint_get(e._color))
    ELSE Raised("AttributeError")

\* The property message.
message(e) ==
    IF e._message_type = _NVTX_MESSAGE_UNKNOWN THEN None
    ELSE IF e._message_type = _NVTX_MESSAGE_TYPE_ASCII THEN c_char_p_get(e._message)
    ELSE IF e._message_type = _NVTX_MESSAGE_TYPE_UNICODE THEN c_wchar_p_get(e._message)
    ELSE Raised("AttributeError")

\* isinstance(p, numbers.Integral) / isinstance(p, numbers.Real)
IsIntegral(p) == p.ty = "int"
IsReal(p) == p.ty \in {"int", "float"}

\* One field assignment of _create_event: an exception raised earlier, or by
\* the setter, is what the call gives.
SetCategory(e, cat) ==
    IF IsRaised(e) \/ cat = None THEN e
    ELSE LET v == c_int_set(cat, 2)
         IN  IF IsRaised(v) THEN v ELSE [e EXCEPT !.category = v.l]

SetColor(e, col) ==
    IF IsRaised(e) \/ col = None THEN e
    ELSE LET v == c_int_set(col, 2)
         IN  IF IsRaised(v) THEN v
             ELSE [e EXCEPT !._color_type = _NVTX_COLOR_ARGB, !._color = v.l]

PayloadKindOf(pl) ==
    IF IsIntegral(pl) THEN _NVTX_PAYLOAD_TYPE_INT64
    ELSE IF IsReal(pl) THEN _NVTX_PAYLOAD_TYPE_DOUBLE
    ELSE _NVTX_PAYLOAD_UNKNOWN

SetPayload(e, pl) ==
    IF IsRaised(e) \/ pl = None THEN e
    ELSE IF PayloadKindOf(pl) = _NVTX_PAYLOAD_TYPE_INT64
         THEN [e EXCEPT !._payload_type = _NVTX_PAYLOAD_TYPE_INT64,
                        !._payload = c_int_set(pl, 4).l]
    ELSE IF PayloadKindOf(pl) = _NVTX_PAYLOAD_TYPE_DOUBLE
         THEN [e EXCEPT !._payload_type = _NVTX_PAYLOAD_TYPE_DOUBLE,
                        !._payload = c_double_set(pl).l]
    ELSE e

SetMessage(e, msg) ==
    IF IsRaised(e) \/ msg = None THEN e
    ELSE LET v == c_char_p_set(msg)
         IN  IF IsRaised(v) THEN v
             ELSE [e EXCEPT !._message_type = _NVTX_MESSAGE_TYPE_ASCII, !._message = v]

_create_event(msg, col, pl, cat) ==
    SetMessage(SetPayload(SetColor(SetCategory(_EventAttributes_v1, cat), col), pl), msg)

(***************************************************************************)
(* The arguments the calls are tried with.                                 *)
(***************************************************************************)
\* _Colors
red     == PyInt(FALSE, <<0, 65535>>)          \* 0xffff0000
green   == PyInt(FALSE, <<65280, 65280>>)      \* 0xff00ff00
blue    == PyInt(FALSE, <<255, 65280>>)        \* 0xff0000ff
yellow  == PyInt(FALSE, <<65280, 65535>>)      \* 0xffffff00
magenta == PyInt(FALSE, <<255, 65535>>)        \* 0xffff00ff
cyan    == PyInt(FALSE, <<65535, 65280>>)      \* 0xff00ffff
white   == PyInt(FALSE, <<65535, 65535>>)      \* 0xffffffff
black   == PyInt(FALSE, <<0, 65280>>)          \* 0xff000000
colors  == {red, green, blue, yellow, magenta, cyan, white, black}

Small(n) == PyInt(n < 0, IF n = 0 THEN <<>> ELSE <<IF n < 0 THEN -n ELSE n>>)

\* b"hi", b"", b"a\0b"
MessageArgs == {None, PyBytes(<<104, 105>>), PyBytes(<<>>), PyBytes(<<97, 0, 98>>)}

\* a color of _Colors, 0, 0x12345, and outside 32 bits: 2^32 + 5, -1; "red"
ColorArgs == {None, red, white, black, Small(0), PyInt(FALSE, <<9029, 1>>),
           PyInt(FALSE, <<5, 0, 1>>), Small(-1), PyStr(<<"r", "e", "d">>)}

\* 0, 42, -1, 2^63 - 1, -2^63; outside 64 bits: 2^63, 2^64 + 42, -2^63 - 1;
\* the floats 1.5 and 2.0; a text
PayloadArgs == {None, Small(0), Small(42), Small(-1),
             PyInt(FALSE, <<65535, 65535, 65535, 32767>>),
             PyInt(TRUE, <<0, 0, 0, 32768>>),
             PyInt(FALSE, <<0, 0, 0, 32768>>),
             PyInt(FALSE, <<42, 0, 0, 0, 1>>),
             PyInt(TRUE, <<1, 0, 0, 32768>>),
             PyFloat(<<0, 0, 0, 16376>>), PyFloat(<<0, 0, 0, 16384>>),
             PyStr(<<"p">>)}

\* 0, 7, 2^32 - 1; outside 32 bits: 2^32 + 7, -1
CategoryArgs == {None, Small(0), Small(7), PyInt(FALSE, <<65535, 65535>>),
               PyInt(FALSE, <<7, 0, 1>>), Small(-1)}

(***************************************************************************)
(* The codec alone: a record is built from every choice of arguments and   *)
(* then read back through its properties.                                  *)
(***************************************************************************)
CreateEvent ==
    /\ ea = None
    /\ ea' = _create_event(args.message, args.color, args.payload, args.category)
    /\ UNCHANGED <<args, decoded>>
    /\ UNCHANGED <<bindVars, rangeVars>>

\* str(): version, size, category, message, color, payload, read in that order.
ReadBack ==
    /\ ea # None /\ ~IsRaised(ea) /\ decoded = None
    /\ decoded' = [version |-> ea.version, size |-> ea.size,
                   category |-> c_uint_get(ea.category),
                   message |-> message(ea), color |-> color(ea),
                   payload |-> payload(ea)]
    /\ UNCHANGED <<args, ea>>
    /\ UNCHANGED <<bindVars, rangeVars>>

CodecNext ==
    \/ CreateEvent
    \/ ReadBack

(***************************************************************************)
(* Library Locator.  Strings are sequences of characters.                  *)
(***************************************************************************)
startswith(s, prefix) ==
    Len(s) >= Len(prefix) /\ SubSeq(s, 1, Len(prefix)) = prefix

darwin  == <<"d", "a", "r", "w", "i", "n">>
linux   == <<"l", "i", "n", "u", "x">>
linux2  == <<"l", "i", "n", "u", "x", "2">>
win32   == <<"w", "i", "n", "3", "2">>
cygwin  == <<"c", "y", "g", "w", "i", "n">>
freebsd == <<"f", "r", "e", "e", "b", "s", "d", "1", "1">>
Platforms == {darwin, linux, linux2, win32, cygwin, freebsd}

\* '/Developer/NVIDIA/CUDA-7.5/lib'
DarwinDefault == <<"/", "D", "e", "v", "e", "l", "o", "p", "e", "r", "/",
                   "N", "V", "I", "D", "I", "A", "/",
                   "C", "U", "D", "A", "-", "7", ".", "5", "/", "l", "i", "b">>
\* '/usr/local/cuda-7.0/lib64'
LinuxDefault == <<"/", "u", "s", "r", "/", "l", "o", "c", "a", "l", "/",
                  "c", "u", "d", "a", "-", "7", ".", "0", "/", "l", "i", "b", "6", "4">>
\* 'libnvToolsExt'
LibName == <<"l", "i", "b", "n", "v", "T", "o", "o", "l", "s", "E", "x", "t">>

\* os.path.join(base, name) for a relative name: posixpath, or ntpath on
\* win32 (a base that ends with a separator or a drive colon gets none).
os_path_join(platform, base, name) ==
    IF base = <<>> THEN name
    ELSE IF platform = win32
         THEN IF base[Len(base)] \in {"\\", "/", ":"} THEN base \o name
              ELSE base \o <<"\\">> \o name
    ELSE IF base[Len(base)] = "/" THEN base \o name
    ELSE base \o <<"/">> \o name

\* The default directory, when NVTXPY_CUDA_TOOLKIT is not set.
DefaultBase(platform) ==
    IF platform = darwin THEN PyStr(DarwinDefault)
    ELSE IF startswith(platform, linux) THEN PyStr(LinuxDefault)
    ELSE None

Extension(platform) ==
    IF platform = darwin THEN <<".", "d", "y", "l", "i", "b">>
    ELSE IF startswith(platform, linux) THEN <<".", "s", "o">>
    ELSE IF platform = win32 THEN <<".", "d", "l", "l">>
    ELSE <<>>

\* The override ignored where the platform has a default.
_get_cuda_nvtx_path_default_first(platform, environ) ==
    LET base == IF DefaultBase(platform) # None THEN DefaultBase(platform) ELSE environ
    IN  IF base # None
        THEN PyStr(os_path_join(platform, base.s, LibName \o Extension(platform)))
        ELSE None

\* environ is os.environ.get('NVTXPY_CUDA_TOOLKIT'): None or a string.
_get_cuda_nvtx_path(platform, environ) ==
    LET base == IF environ = None THEN DefaultBase(platform) ELSE environ
    IN  IF base # None
        THEN PyStr(os_path_join(platform, base.s, LibName \o Extension(platform)))
        ELSE None

(***************************************************************************)
(* Library Binder: the module's try block.                                 *)
(***************************************************************************)
\* The entry points, in the order the module binds them.
EntryPoints == <<"nvtxMarkA", "nvtxMarkEx", "nvtxRangePushEx",
                 "nvtxRangePushA", "nvtxRangePop">>
AllEntryPoints == {EntryPoints[i] : i \in DOMAIN EntryPoints}

\* What the loader can find behind its argument (the file at the path, or the
\* running process when there is no path): nothing loadable, or a library
\* exporting some of the entry points.
Absent == [ty |-> "absent"]
Library(exports) == [ty |-> "library", exports |-> exports]
Found == {Absent, Library(AllEntryPoints), Library({})}
            \cup {Library(AllEntryPoints \ {f}) : f \in AllEntryPoints}

\* NVTXPY_CUDA_TOOLKIT: unset, '/opt/cuda', '/opt/cuda/', ''
Overrides == {None, PyStr(<<"/", "o", "p", "t", "/", "c", "u", "d", "a">>),
              PyStr(<<"/", "o", "p", "t", "/", "c", "u", "d", "a", "/">>),
              PyStr(<<>>)}

\* _load_lib: CDLL(path), or WinDLL(path) on win32.  With None for a path
\* CDLL opens the running process itself (dlopen(NULL)) and WinDLL raises
\* TypeError; a path that cannot be loaded raises OSError.
_load_lib(platform, p, found) ==
    IF p = None /\ platform = win32 THEN Raised("TypeError")
    ELSE IF p = None THEN (IF found = Absent THEN Library({}) ELSE found)
    ELSE IF found = Absent THEN Raised("OSError")
    ELSE found

\* Lines 140-150: the first entry point the library lacks raises
\* AttributeError.
RECURSIVE BindFrom(_, _)
BindFrom(lib, i) ==
    IF i > Len(EntryPoints) THEN "bound"
    ELSE IF EntryPoints[i] \notin lib.exports THEN "AttributeError"
    ELSE BindFrom(lib, i + 1)

\* try: ... except Exception: which definitions of the facade the module keeps.
TryBlock(platform, p, found) ==
    LET lib == _load_lib(platform, p, found)
    IN  IF IsRaised(lib) THEN "unavailable"
        ELSE IF BindFrom(lib, 1) = "bound" THEN "bound"
        ELSE "unavailable"

(***************************************************************************)
(* Instrumentation Facade.  A call gives the native calls it made and the  *)
(* exception that escaped it, if any.                                      *)
(***************************************************************************)
Native(fn, arg) == [fn |-> fn, arg |-> arg]
Outcome(natives, exc) == [natives |-> natives, exc |-> exc]

\* The category left out of the test.
AllNoneButCategory(col, pl, cat) == col = None /\ pl = None
\* all(x is None for x in (color, payload, category))
AllNone(col, pl, cat) == col = None /\ pl = None /\ cat = None

\* Lines 181-186.
profile_mark_native(msg, col, pl, cat) ==
    IF AllNone(col, pl, cat)
    THEN Outcome(<<Native("nvtxMarkA", msg)>>, "none")
    ELSE LET evnt == _create_event(msg, col, pl, cat)
         IN  IF IsRaised(evnt) THEN Outcome(<<>>, evnt.exc)
             ELSE Outcome(<<Native("nvtxMarkEx", evnt)>>, "none")

\* Lines 189-194.
profile_range_push_native(msg, col, pl, cat) ==
    IF AllNone(col, pl, cat)
    THEN Outcome(<<Native("nvtxRangePushA", msg)>>, "none")
    ELSE LET evnt == _create_event(msg, col, pl, cat)
         IN  IF IsRaised(evnt) THEN Outcome(<<>>, evnt.exc)
             ELSE Outcome(<<Native("nvtxRangePushEx", evnt)>>, "none")

\* Line 197.
profile_range_pop_native == Outcome(<<Native("nvtxRangePop", None)>>, "none")

\* A stub that forwards to the native call.
profile_mark_forwarding(msg, col, pl, cat) == profile_mark_native(msg, col, pl, cat)

\* Lines 200-207: pass.
profile_mark_stub(msg, col, pl, cat) == Outcome(<<>>, "none")
profile_range_push_stub(msg, col, pl, cat) == Outcome(<<>>, "none")
profile_range_pop_stub == Outcome(<<>>, "none")

\* The names the module exports, as bound by the try block or its handler.
profile_mark(msg, col, pl, cat) ==
    IF binding = "bound" THEN profile_mark_native(msg, col, pl, cat)
    ELSE profile_mark_stub(msg, col, pl, cat)

profile_range_push(msg, col, pl, cat) ==
    IF binding = "bound" THEN profile_range_push_native(msg, col, pl, cat)
    ELSE profile_range_push_stub(msg, col, pl, cat)

profile_range_pop ==
    IF binding = "bound" THEN profile_range_pop_native ELSE profile_range_pop_stub

Call(op, a, out) == [op |-> op, args |-> a, natives |-> out.natives, exc |-> out.exc]
Args(msg, col, pl, cat) == [message |-> msg, color |-> col, payload |-> pl, category |-> cat]
NoCall == [op |-> "none", args |-> None, natives |-> <<>>, exc |-> "none"]

\* import nvtxpy: the locator, then the try block, once.
ImportModule ==
    /\ binding = "pending"
    /\ path' = _get_cuda_nvtx_path(env.platform, env.environ)
    /\ binding' = TryBlock(env.platform, path', env.found)
    /\ UNCHANGED <<env, last>>
    /\ UNCHANGED <<codecVars, rangeVars>>

Mark(msg, col, pl, cat) ==
    /\ binding # "pending"
    /\ last' = Call("profile_mark", Args(msg, col, pl, cat), profile_mark(msg, col, pl, cat))
    /\ UNCHANGED <<env, path, binding>>
    /\ UNCHANGED <<codecVars, rangeVars>>

RangePush(msg, col, pl, cat) ==
    /\ binding # "pending"
    /\ last' = Call("profile_range_push", Args(msg, col, pl, cat),
                    profile_range_push(msg, col, pl, cat))
    /\ UNCHANGED <<env, path, binding>>
    /\ UNCHANGED <<codecVars, rangeVars>>

RangePop ==
    /\ binding # "pending"
    /\ last' = Call("profile_range_pop", None, profile_range_pop)
    /\ UNCHANGED <<env, path, binding>>
    /\ UNCHANGED <<codecVars, rangeVars>>

\* The arguments the facade is called with: absent or present, in and out of
\* range, and a color that is no integer.
FacadeMessages == {None, PyBytes(<<104, 105>>)}
FacadeColors == {None, red, PyInt(FALSE, <<5, 0, 1>>), PyStr(<<"r", "e", "d">>)}
FacadePayloads == {None, Small(42), PyFloat(<<0, 0, 0, 16376>>), PyStr(<<"p">>)}
FacadeCategories == {None, Small(7)}

BindNext ==
    \/ ImportModule
    \/ \E msg \in FacadeMessages, col \in FacadeColors,
          pl \in FacadePayloads, cat \in FacadeCategories :
          \/ Mark(msg, col, pl, cat)
          \/ RangePush(msg, col, pl, cat)
    \/ RangePop

(***************************************************************************)
(* profile_range, profiled, _stats and getstats.                           *)
(*                                                                         *)
(* A thread runs the generator of profile_range one bytecode-level step    *)
(* at a time: threads switch between any two steps.  The list objects      *)
(* [count, total] live in a heap and are named by reference, so sharing    *)
(* between _stats and a copy of it is visible.                             *)
(***************************************************************************)
NThreads == 2
MaxDepth == 2
MaxRuns == 3
MaxTime == 2
CopyRuns == 2
CopyTime == 1

Threads == 1..NThreads
MainThread == {CHOOSE th \in Threads : \A o \in Threads : th <= o}

\* The range names: b"x", b"y"
NameSeq == <<PyBytes(<<120>>), PyBytes(<<121>>)>>
Names == {NameSeq[i] : i \in DOMAIN NameSeq}

Ref(i) == [ty |-> "ref", id |-> i]
PyList(v) == [ty |-> "list", v |-> v]
Free == [ty |-> "free"]
PyDict(d) == [ty |-> "dict", d |-> d]
EmptyDict == [n \in Names |-> None]

\* Enough list objects for _stats, one copy of it, and one per thread.
Refs == 1..(2 * Len(NameSeq) + NThreads)

\* The references held by _stats, by the caller's copy and by the
\* generators' local variable stat.
Held(st, sn, fr) ==
    {st[n].id : n \in {m \in Names : st[m] # None}}
    \cup (IF sn = None THEN {} ELSE {sn.d[n].id : n \in {m \in Names : sn.d[m] # None}})
    \cup UNION {{fr[th][i].stat.id : i \in {j \in DOMAIN fr[th] : fr[th][j].stat # None}}
                : th \in Threads}

\* Reference counting: an object nothing refers to is freed at once.
Collect(h, st, sn, fr) ==
    [r \in Refs |-> IF r \in Held(st, sn, fr) THEN h[r] ELSE Free]

\* A new object takes the first free place.
Alloc(h) == CHOOSE r \in Refs : h[r] = Free /\ \A o \in Refs : h[o] = Free => r <= o

\* if stat: None is false, a list is true when it is not empty.
TruthyZeroTotal(h, stat) == stat # None /\ h[stat.id].v[2] # 0
Truthy(h, stat) == stat # None /\ Len(h[stat.id].v) > 0

\* Line 233 (and 227): the push profile_range makes on entry.
profile_range_enter(name, col, pl, cat) == profile_range_push(name, col, pl, None)

Top(th) == frames[th][Len(frames[th])]
SetTop(th, f) == [frames EXCEPT ![th][Len(frames[th])] = f]
DropTop(th) == [frames EXCEPT ![th] = SubSeq(frames[th], 1, Len(frames[th]) - 1)]

Bump(f, n, d) == [f EXCEPT ![n] = <<f[n][1] + 1, f[n][2] + d>>]

\* with profile_range(name, ...): or a call of a function wrapped by
\* profiled(name, ...): lines 233-235, up to the yield.
Enter(th, depth, runs, via, name, col, pl, cat) ==
    /\ pc[th] = "body" /\ Len(frames[th]) < depth /\ pushes < runs
    /\ LET out == profile_range_enter(name, col, pl, cat)
       IN  /\ out.exc = "none"
           /\ last' = Call(via, Args(name, col, pl, cat), out)
    /\ pushes' = pushes + 1
    /\ frames' = [frames EXCEPT ![th] = Append(@, [name |-> name, t |-> now,
                                                    stat |-> None, tmp |-> 0])]
    /\ UNCHANGED <<binding, now, pc, stats, heap, snap, pops, expect, exits>>
    /\ UNCHANGED otherVars

\* time() moves on.
Tick(until) ==
    /\ now < until
    /\ now' = now + 1
    /\ UNCHANGED <<binding, last, frames, pc, stats, heap, snap, pushes, pops, expect, exits>>
    /\ UNCHANGED otherVars

\* The block ends normally; line 236: t = time() - t
BlockReturns(th) ==
    /\ pc[th] = "body" /\ frames[th] # <<>>
    /\ frames' = SetTop(th, [Top(th) EXCEPT !.t = now - @])
    /\ pc' = [pc EXCEPT ![th] = "get"]
    /\ expect' = Bump(expect, Top(th).name, now - Top(th).t)
    /\ exits' = [exits EXCEPT ![Top(th).name] = @ + 1]
    /\ UNCHANGED <<binding, last, now, stats, heap, snap, pushes, pops>>
    /\ UNCHANGED otherVars

\* The block raises: the exception is thrown into the generator at the yield
\* of line 235, which no try statement encloses, so the generator ends there.
BlockRaises(th) ==
    /\ pc[th] = "body" /\ frames[th] # <<>>
    /\ frames' = DropTop(th)
    /\ exits' = [exits EXCEPT ![Top(th).name] = @ + 1]
    /\ heap' = Collect(heap, stats, snap, frames')
    /\ UNCHANGED <<binding, last, now, pc, stats, snap, pushes, pops, expect>>
    /\ UNCHANGED otherVars

\* Lines 238-239: stat = _stats.get(name); if stat:
GetStat(th) ==
    /\ pc[th] = "get"
    /\ frames' = SetTop(th, [Top(th) EXCEPT !.stat = stats[Top(th).name]])
    /\ pc' = [pc EXCEPT ![th] = IF Truthy(heap, stats[Top(th).name])
                                 THEN "load0" ELSE "setitem"]
    /\ UNCHANGED <<binding, last, now, stats, heap, snap, pushes, pops, expect, exits>>
    /\ UNCHANGED otherVars

\* Lines 240-241: stat[i] += d is a load, an add and a store.
Load(th, at, i, to) ==
    /\ pc[th] = at
    /\ frames' = SetTop(th, [Top(th) EXCEPT !.tmp = heap[Top(th).stat.id].v[i]])
    /\ pc' = [pc EXCEPT ![th] = to]
    /\ UNCHANGED <<binding, last, now, stats, heap, snap, pushes, pops, expect, exits>>
    /\ UNCHANGED otherVars

Store(th, at, i, d, to) ==
    /\ pc[th] = at
    /\ heap' = [heap EXCEPT ![Top(th).stat.id].v[i] = Top(th).tmp + d]
    /\ pc' = [pc EXCEPT ![th] = to]
    /\ UNCHANGED <<binding, last, now, frames, stats, snap, pushes, pops, expect, exits>>
    /\ UNCHANGED otherVars

LoadCount(th)  == Load(th, "load0", 1, "store0")
StoreCount(th) == Store(th, "store0", 1, 1, "load1")
LoadTotal(th)  == Load(th, "load1", 2, "store1")
StoreTotal(th) == Store(th, "store1", 2, Top(th).t, "pop")

\* Line 243: _stats[name] = [1, t]
SetItem(th) ==
    /\ pc[th] = "setitem"
    /\ LET r == Alloc(heap)
       IN  /\ stats' = [stats EXCEPT ![Top(th).name] = Ref(r)]
           /\ heap' = Collect([heap EXCEPT ![r] = PyList(<<1, Top(th).t>>)],
                              stats', snap, frames)
    /\ pc' = [pc EXCEPT ![th] = "pop"]
    /\ UNCHANGED <<binding, last, now, frames, snap, pushes, pops, expect, exits>>
    /\ UNCHANGED otherVars

\* Line 244: profile_range_pop(), and the generator ends.
Pop(th) ==
    /\ pc[th] = "pop"
    /\ last' = Call("profile_range_pop", None, profile_range_pop)
    /\ pops' = pops + 1
    /\ frames' = DropTop(th)
    /\ pc' = [pc EXCEPT ![th] = "body"]
    /\ heap' = Collect(heap, stats, snap, frames')
    /\ UNCHANGED <<binding, now, stats, snap, pushes, expect, exits>>
    /\ UNCHANGED otherVars

\* copy.copy: a new dict holding the same list objects.
RECURSIVE DeepCopyFrom(_, _, _)
ShallowCopyFrom(i, d, h) == [dict |-> PyDict(d), heap |-> h]
\* copy.deepcopy: a new dict holding a new list for every list.
DeepCopyFrom(i, d, h) ==
    IF i > Len(NameSeq) THEN [dict |-> PyDict(d), heap |-> h]
    ELSE IF d[NameSeq[i]] = None THEN DeepCopyFrom(i + 1, d, h)
    ELSE LET r == Alloc(h)
         IN  DeepCopyFrom(i + 1, [d EXCEPT ![NameSeq[i]] = Ref(r)],
                          [h EXCEPT ![r] = h[d[NameSeq[i]].id]])

\* Lines 258-259; the caller keeps what it returns (and lets go of an
\* earlier copy).
getstats == DeepCopyFrom(1, stats, Collect(heap, stats, None, frames))

GetStats(th) ==
    /\ pc[th] = "body"
    /\ snap' = getstats.dict
    /\ heap' = getstats.heap
    /\ UNCHANGED <<binding, last, now, frames, pc, stats, pushes, pops, expect, exits>>
    /\ UNCHANGED otherVars

\* What the caller does to the mapping it was given: d[name][i] = v,
\* del d[name], d[name] = [v, v].
MutateValues == {7}

SnapSetElement(name, i, v) ==
    /\ snap # None /\ snap.d[name] # None
    /\ heap[snap.d[name].id].v[i] # v
    /\ heap' = [heap EXCEPT ![snap.d[name].id].v[i] = v]
    /\ UNCHANGED <<binding, last, now, frames, pc, stats, snap, pushes, pops, expect, exits>>
    /\ UNCHANGED otherVars

SnapDelete(name) ==
    /\ snap # None /\ snap.d[name] # None
    /\ snap' = PyDict([snap.d EXCEPT ![name] = None])
    /\ heap' = Collect(heap, stats, snap', frames)
    /\ UNCHANGED <<binding, last, now, frames, pc, stats, pushes, pops, expect, exits>>
    /\ UNCHANGED otherVars

SnapInsert(name, v) ==
    /\ snap # None /\ snap.d[name] = None
    /\ LET r == Alloc(heap)
       IN  /\ snap' = PyDict([snap.d EXCEPT ![name] = Ref(r)])
           /\ heap' = [heap EXCEPT ![r] = PyList(<<v, v>>)]
    /\ UNCHANGED <<binding, last, now, frames, pc, stats, pushes, pops, expect, exits>>
    /\ UNCHANGED otherVars

SnapMutate(th) ==
    /\ pc[th] = "body"
    /\ \E name \in Names, v \in MutateValues :
          \/ \E i \in {1, 2} : SnapSetElement(name, i, v)
          \/ SnapDelete(name)
          \/ SnapInsert(name, v)

\* The arguments profile_range is used with.
RangeColors == {None, red}
RangePayloads == {None, Small(42)}
RangeCategories == {None, Small(7)}
Vias == {"profile_range", "profiled"}

\* Lines 236-244, step by step.
AfterYield(th) ==
    \/ BlockReturns(th)
    \/ GetStat(th)
    \/ LoadCount(th)
    \/ StoreCount(th)
    \/ LoadTotal(th)
    \/ StoreTotal(th)
    \/ SetItem(th)
    \/ Pop(th)

(***************************************************************************)
(* The specifications.                                                     *)
(***************************************************************************)
\* The codec on its own, from every choice of arguments.
CodecInit ==
    /\ args \in [message : MessageArgs, color : ColorArgs,
                 payload : PayloadArgs, category : CategoryArgs]
    /\ ea = None /\ decoded = None
    /\ env = None /\ path = None /\ binding = "pending" /\ last = NoCall
    /\ now = 0
    /\ frames = [th \in Threads |-> <<>>]
    /\ pc = [th \in Threads |-> "body"]
    /\ stats = EmptyDict
    /\ heap = [r \in Refs |-> Free]
    /\ snap = None
    /\ pushes = 0 /\ pops = 0
    /\ expect = [n \in Names |-> <<0, 0>>]
    /\ exits = [n \in Names |-> 0]

SpecCodec == CodecInit /\ [][CodecNext]_vars

\* The import of the module and the facade, in every environment.
BindInit ==
    /\ env \in [platform : Platforms, environ : Overrides, found : Found]
    /\ path = None /\ binding = "pending" /\ last = NoCall
    /\ args = None /\ ea = None /\ decoded = None
    /\ now = 0
    /\ frames = [th \in Threads |-> <<>>]
    /\ pc = [th \in Threads |-> "body"]
    /\ stats = EmptyDict
    /\ heap = [r \in Refs |-> Free]
    /\ snap = None
    /\ pushes = 0 /\ pops = 0
    /\ expect = [n \in Names |-> <<0, 0>>]
    /\ exits = [n \in Names |-> 0]

SpecBind == BindInit /\ [][BindNext]_vars

\* The module as imported (the facade is bound, or it is the stubs), no
\* range open and _stats empty.
Init ==
    /\ binding \in {"bound", "unavailable"}
    /\ env = None /\ path = None /\ last = NoCall
    /\ args = None /\ ea = None /\ decoded = None
    /\ now = 0
    /\ frames = [th \in Threads |-> <<>>]
    /\ pc = [th \in Threads |-> "body"]
    /\ stats = EmptyDict
    /\ heap = [r \in Refs |-> Free]
    /\ snap = None
    /\ pushes = 0 /\ pops = 0
    /\ expect = [n \in Names |-> <<0, 0>>]
    /\ exits = [n \in Names |-> 0]

\* One thread using profile_range, nested too, with blocks that return and
\* blocks that raise.
Next ==
    \/ \E th \in MainThread, name \in Names :
          Enter(th, MaxDepth, MaxRuns, "profile_range", name, None, None, None)
    \/ \E th \in MainThread : AfterYield(th)
    \/ \E th \in MainThread : BlockRaises(th)
    \/ Tick(MaxTime)

Spec == Init /\ [][Next]_vars

\* One thread using profile_range and profiled with every choice of
\* arguments.
ArgsNext ==
    \/ \E th \in MainThread, via \in Vias, name \in Names,
          col \in RangeColors, pl \in RangePayloads, cat \in RangeCategories :
          Enter(th, 1, MaxRuns, via, name, col, pl, cat)
    \/ \E th \in MainThread : AfterYield(th)
    \/ Tick(MaxTime)

SpecArgs == Init /\ [][ArgsNext]_vars

\* One thread using profile_range and getstats, and changing what getstats
\* gave it.
CopyNext ==
    \/ \E th \in MainThread, name \in Names :
          Enter(th, 1, CopyRuns, "profile_range", name, None, None, None)
    \/ \E th \in MainThread : AfterYield(th)
    \/ Tick(CopyTime)
    \/ \E th \in MainThread : GetStats(th)
    \/ \E th \in MainThread : SnapMutate(th)

SpecCopy == Init /\ [][CopyNext]_vars

\* Several threads using profile_range, one block each at a time.
ConcNext ==
    \/ \E th \in Threads, name \in Names :
          Enter(th, 1, MaxRuns, "profile_range", name, None, None, None)
    \/ \E th \in Threads : AfterYield(th)
    \/ Tick(MaxTime)

SpecConc == Init /\ [][ConcNext]_vars

(***************************************************************************)
(* Library Locator (checked under SpecBind).                               *)
(***************************************************************************)
endswith(s, suffix) ==
    Len(s) >= Len(suffix) /\ SubSeq(s, Len(s) - Len(suffix) + 1, Len(s)) = suffix

\* The extension each platform is said to get.
SaidExtension(platform) ==
    IF platform = darwin THEN <<".", "d", "y", "l", "i", "b">>
    ELSE IF platform \in {linux, linux2} THEN <<".", "s", "o">>
    ELSE IF platform = win32 THEN <<".", "d", "l", "l">>
    ELSE <<>>

\* The candidate built from the one default directory of a platform.
DefaultCandidate(platform) ==
    IF platform = darwin
    THEN PyStr(DarwinDefault \o <<"/">> \o LibName \o SaidExtension(platform))
    ELSE IF platform \in {linux, linux2}
    THEN PyStr(LinuxDefault \o <<"/">> \o LibName \o SaidExtension(platform))
    ELSE None

\* C9: with an override the candidate is the override directory joined with
\* the library file name and the platform's extension (.dylib on darwin, .so
\* on linux, .dll on win32), never the one built from the default directory;
\* without an override it is the one built from the default directory on
\* darwin and linux, and no candidate on every other platform.
C9_Locator ==
    binding # "pending" =>
        IF env.environ # None
        THEN /\ path # None
             /\ startswith(path.s, env.environ.s)
             /\ endswith(path.s, LibName \o SaidExtension(env.platform))
             /\ Len(path.s) <= Len(env.environ.s) + 1
                                + Len(LibName \o SaidExtension(env.platform))
             /\ path # DefaultCandidate(env.platform)
        ELSE path = DefaultCandidate(env.platform)

\* An override is set on win32 and the candidate is '/opt/cuda\libnvToolsExt.dll'.
C9_Witness ==
    /\ binding # "pending"
    /\ env.platform = win32
    /\ env.environ = PyStr(<<"/", "o", "p", "t", "/", "c", "u", "d", "a">>)
    /\ path = PyStr(<<"/", "o", "p", "t", "/", "c", "u", "d", "a", "\\">> \o LibName
                    \o <<".", "d", "l", "l">>)

(***************************************************************************)
(* The fallback (checked under SpecBind).                                  *)
(***************************************************************************)
\* The load fails, or the library lacks one of the five entry points.
LoadFails ==
    \/ env.found = Absent
    \/ env.found.exports # AllEntryPoints
    \/ path = None /\ env.platform = win32

SimpleEntry(op) == IF op = "profile_mark" THEN "nvtxMarkA" ELSE "nvtxRangePushA"
ExtendedEntry(op) == IF op = "profile_mark" THEN "nvtxMarkEx" ELSE "nvtxRangePushEx"

\* A color and a category are integers when present, a message is bytes.
WellTyped(a) ==
    /\ a.color.ty \in {"None", "int"}
    /\ a.category.ty \in {"None", "int"}
    /\ a.message.ty \in {"None", "bytes"}

\* C6: with the binding available, profile_mark and profile_range_push make
\* exactly one native call: the simple entry point, given the message itself,
\* exactly when color, payload and category are all absent, and otherwise the
\* extended entry point, given an event record encoding the arguments.
C6_FastPath ==
    binding = "bound" /\ last.op \in {"profile_mark", "profile_range_push"}
                      /\ WellTyped(last.args) =>
        /\ Len(last.natives) = 1
        /\ IF last.args.color = None /\ last.args.payload = None
                                     /\ last.args.category = None
           THEN last.natives[1] = Native(SimpleEntry(last.op), last.args.message)
           ELSE /\ last.natives[1].fn = ExtendedEntry(last.op)
                /\ last.natives[1].arg.ty = "EventAttributes_v1"
                /\ (last.natives[1].arg._color_type = _NVTX_COLOR_ARGB)
                       <=> (last.args.color # None)
                /\ (last.natives[1].arg._message_type = _NVTX_MESSAGE_TYPE_ASCII)
                       <=> (last.args.message # None)

\* profile_mark with a category and nothing else took the extended entry point.
C6_Witness ==
    /\ binding = "bound"
    /\ last.op = "profile_mark"
    /\ last.args.color = None /\ last.args.payload = None
    /\ last.args.category = Small(7)
    /\ Len(last.natives) = 1
    /\ last.natives[1].fn = "nvtxMarkEx"

(***************************************************************************)
(* Encoding round trip (checked under SpecCodec).                          *)
(***************************************************************************)
\* The integer a hex() string denotes.
HexValue(ch) == (CHOOSE i \in DOMAIN HexDigits : HexDigits[i] = ch) - 1

RECURSIVE LimbsOfDigits(_)
LimbsOfDigits(d) ==
    IF d = <<>> THEN <<>>
    ELSE IF Len(d) <= 4
         THEN LET v[i \in 0..Len(d)] == IF i = 0 THEN 0 ELSE v[i - 1] * 16 + HexValue(d[i])
              IN  <<v[Len(d)]>>
    ELSE LimbsOfDigits(SubSeq(d, Len(d) - 3, Len(d)))
         \o LimbsOfDigits(SubSeq(d, 1, Len(d) - 4))

IntOfHex(str) == PyInt(FALSE, Strip(LimbsOfDigits(SubSeq(str.s, 3, Len(str.s)))))

\* Whether an integer fits k limbs as an unsigned / as a signed value.
FitsUnsigned(n, k) == ~n.neg /\ Len(n.mag) <= k
FitsSigned(n, k) ==
    \/ Len(n.mag) < k
    \/ Len(n.mag) = k /\ n.mag[k] < Base \div 2
    \/ n.neg /\ n.mag = [i \in 1..k |-> IF i = k THEN Base \div 2 ELSE 0]

Numeric(pl) == pl.ty \in {"int", "float"}

\* What every encoded record holds whatever the values: version and size,
\* the kind of every field, and 'none' read back for an absent field.
KindsAndAbsent ==
    /\ ea.version = 1
    /\ ea.size = sizeof(_fields_)
    /\ decoded.version = 1 /\ decoded.size = ea.size
    /\ (args.message = None) => decoded.message = None
    /\ (args.color = None) => decoded.color = None
    /\ (args.payload = None) => decoded.payload = None
    /\ (args.message # None) => ea._message_type = _NVTX_MESSAGE_TYPE_ASCII
    /\ (args.color # None) => ea._color_type = _NVTX_COLOR_ARGB
    /\ (args.payload.ty = "int") => ea._payload_type = _NVTX_PAYLOAD_TYPE_INT64
    /\ (args.payload.ty = "float") => ea._payload_type = _NVTX_PAYLOAD_TYPE_DOUBLE
    /\ ea._payload_type # _NVTX_PAYLOAD_TYPE_UNSIGNED_INT64
    /\ ea._message_type # _NVTX_MESSAGE_TYPE_UNICODE

\* C8 as stated: the record of every message, color, numeric payload and
\* category reads back as the same message, color value, payload and
\* category.
C8_RoundTripEveryValue ==
    decoded # None =>
        /\ KindsAndAbsent
        /\ (args.message # None) => decoded.message = args.message
        /\ (args.color # None) => IntOfHex(decoded.color) = args.color
        /\ (args.payload # None /\ Numeric(args.payload)) => decoded.payload = args.payload
        /\ (args.category # None) => decoded.category = args.category

\* C8, amended: the same for a message without a NUL byte, a color and a
\* category in 0 .. 2^32 - 1, an int payload in -2^63 .. 2^63 - 1 and a float
\* payload; version, size, the kinds and the absent fields hold for every
\* record.
C8_RoundTrip ==
    decoded # None =>
        /\ KindsAndAbsent
        /\ (args.message # None /\ CString(args.message.b) = args.message.b)
               => decoded.message = args.message
        /\ (args.color # None /\ FitsUnsigned(args.color, 2))
               => IntOfHex(decoded.color) = args.color
        /\ (args.payload.ty = "int" /\ FitsSigned(args.payload, 4))
               => decoded.payload = args.payload
        /\ (args.payload.ty = "float") => decoded.payload = args.payload
        /\ (args.category # None /\ FitsUnsigned(args.category, 2))
               => decoded.category = args.category

\* b"hi", red, -1 and 7 were encoded and read back: -1 is stored as 64 one
\* bits under the signed kind.
C8_Witness ==
    /\ args = [message |-> PyBytes(<<104, 105>>), color |-> red,
               payload |-> Small(-1), category |-> Small(7)]
    /\ decoded # None
    /\ ea._payload = <<65535, 65535, 65535, 65535>>
    /\ decoded.payload = Small(-1)
    /\ decoded.color = PyStr(<<"0", "x", "f", "f", "f", "f", "0", "0", "0", "0">>)

(***************************************************************************)
(* profile_range and profiled (checked under SpecArgs, Spec, SpecConc).    *)
(***************************************************************************)
\* C7: the push made on entry of profile_range, and of a callable wrapped by
\* profiled, is given the category they were given: with a category the push
\* is one call of the extended entry point with a record of that category.
C7_PushCarriesCategory ==
    binding = "bound" /\ last.op \in Vias /\ last.args.category # None =>
        /\ Len(last.natives) = 1
        /\ last.natives[1].fn = "nvtxRangePushEx"
        /\ c_uint_get(last.natives[1].arg.category) = last.args.category

\* No range is open in any thread.
AllClosed == \A th \in Threads : frames[th] = <<>> /\ pc[th] = "body"

\* No thread is between the end of a block and the end of its generator.
Quiescent == \A th \in Threads : pc[th] = "body"

\* _stats as a value: the entry of a name, or None.
StatsValue(n) == IF stats[n] = None THEN None ELSE heap[stats[n].id]
Expected(n) == IF expect[n][1] = 0 THEN None ELSE PyList(expect[n])
Count(n) == IF stats[n] = None THEN 0 ELSE heap[stats[n].id].v[1]

\* C1: once every block has exited, by returning or by raising,
\* profile_range has called profile_range_pop once per profile_range_push.
C1_PopPerPush == AllClosed => pops = pushes

\* C2: once every block has exited, by returning or by raising, the count of
\* each name is the number of blocks of that name that were entered.
C2_CountPerExit == AllClosed => \A n \in Names : Count(n) = exits[n]

\* C3: with one thread, after n blocks of a name have completed normally
\* with elapsed times d1..dn the entry of the name is [n, d1+...+dn] (there
\* is none when n = 0), whatever happened to the other names, and the entry
\* of a name is the same list object from its creation on.
C3_Aggregation ==
    /\ [](Quiescent => \A n \in Names : StatsValue(n) = Expected(n))
    /\ [][\A n \in Names : stats[n] # None => stats'[n] = stats[n]]_vars

\* Two blocks of b"x" that took no time and one of b"y" that took some.
C3_Witness ==
    /\ AllClosed
    /\ StatsValue(NameSeq[1]) = PyList(<<2, 0>>)
    /\ StatsValue(NameSeq[2]) = PyList(<<1, 1>>)

\* C10: once all blocks of all threads have exited normally, the entry of
\* each name counts every one of them and sums their elapsed times.
C10_NoLostUpdate == AllClosed => \A n \in Names : StatsValue(n) = Expected(n)

(***************************************************************************)
(* getstats (checked under SpecCopy).                                      *)
(***************************************************************************)
StatsView == [n \in Names |-> StatsValue(n)]
SnapView ==
    [held |-> snap # None,
     d |-> IF snap = None THEN EmptyDict
           ELSE [n \in Names |-> IF snap.d[n] = None THEN None ELSE heap[snap.d[n].id]]]

\* C4: getstats gives a mapping equal to _stats and leaves _stats as it was;
\* no step changes both _stats and a mapping getstats gave earlier: what the
\* caller does to the mapping or to the lists in it leaves _stats unchanged,
\* and an update by profile_range leaves the mapping unchanged.
C4_DeepCopy ==
    /\ [][(\E th \in MainThread : GetStats(th))
             => SnapView'.d = StatsView /\ StatsView' = StatsView]_vars
    /\ [][(\E th \in MainThread : SnapMutate(th)) => StatsView' = StatsView]_vars
    /\ [][StatsView' # StatsView => SnapView' = SnapView]_vars

\* The caller changed a count in its copy and deleted a name from it, and
\* profile_range has updated _stats since.
C4_Witness ==
    /\ snap # None
    /\ SnapView.d[NameSeq[1]] = PyList(<<7, 0>>)
    /\ SnapView.d[NameSeq[2]] = None
    /\ StatsView[NameSeq[1]] = PyList(<<2, 0>>)

====
